---- MODULE Spec2Model ----
(***************************************************************************)
(* Model of csv_to_ndo_vars.py: the four entity builders (VRFs, bridge     *)
(* domains, ANPs, EPGs), the boolean parser, and main(), which runs the    *)
(* builders in order, writes the YAML document and prints the summary.     *)
(*                                                                         *)
(* A CSV file is a record [given, exists, rows]: `given` is FALSE when the *)
(* path argument is None, `exists` says whether the path is on disk, and   *)
(* `rows` is what csv.DictReader yields: a sequence of records, one per    *)
(* data row, whose fields are the header's columns.  A column the header   *)
(* lacks is a field the row lacks, and row['col'] then raises KeyError.    *)
(* A Python exception is the `error` field of a builder's result.          *)
(* An insertion-ordered dict is a sequence of [key, val] entries with      *)
(* distinct keys.  The strings parse_bool reads are sequences of           *)
(* one-character strings, so that lower() is computed.  `calls` records    *)
(* the builders main() has called, in order.  All rows of one file have    *)
(* the same fields: DictReader gives every row the header's keys, and a    *)
(* short row has None in the cells it lacks.                               *)
(***************************************************************************)
EXTENDS Integers, Sequences, FiniteSets, TLC

VARIABLES vrfs_csv, bds_csv, subnets_csv, anps_csv, epgs_csv, domains_csv,
          stdout_encoding,
          output_file, pc, calls, error, vrfs, bridge_domains, anps, epgs, stdout

vars == <<vrfs_csv, bds_csv, subnets_csv, anps_csv, epgs_csv, domains_csv,
          stdout_encoding,
          output_file, pc, calls, error, vrfs, bridge_domains, anps, epgs, stdout>>

\* what the run is given: the six files and the encoding of its standard output
inputs == <<vrfs_csv, bds_csv, subnets_csv, anps_csv, epgs_csv, domains_csv,
            stdout_encoding>>

-----------------------------------------------------------------------------
(* Bounds of the model.                                                    *)

MaxBdRows == 2

MaxSubnetRows == 3

MaxEpgRows == 2

MaxDomainRows == 3

\* where the primary file's rows vary in every field: its rows, and the
\* secondary file's
MaxPrimaryRows == 3

MaxFewRows == 1

MaxFlatRows == 3

-----------------------------------------------------------------------------
(* Sequences and insertion-ordered dicts.                                  *)

Front(s) == SubSeq(s, 1, Len(s) - 1)

Last(s) == s[Len(s)]

SeqsUpTo(S, n) == UNION {[1..k -> S] : k \in 0..n}

DictHas(d, k) == \E i \in 1..Len(d) : d[i].key = k

DictIndex(d, k) == CHOOSE i \in 1..Len(d) : d[i].key = k

DictGet(d, k) == d[DictIndex(d, k)].val

\* d[k] = v done as delete and reinsert: the key moves to the end
DictPutMoveToEnd(d, k, v) ==
  Append(SelectSeq(d, LAMBDA e : e.key # k), [key |-> k, val |-> v])

\* d[k] = v that never finds the key: every assignment adds an entry
DictPutAlwaysAppend(d, k, v) == Append(d, [key |-> k, val |-> v])

\* d[k] = v: an existing key keeps its position, a new key goes last
DictPut(d, k, v) ==
  IF DictHas(d, k)
  THEN [d EXCEPT ![DictIndex(d, k)] = [key |-> k, val |-> v]]
  ELSE Append(d, [key |-> k, val |-> v])

\* defaultdict lookup: the value of k, or the factory's value
DictGetDefault(d, k, default) == IF DictHas(d, k) THEN DictGet(d, k) ELSE default

DictValues(d) == [i \in 1..Len(d) |-> d[i].val]

-----------------------------------------------------------------------------
(* Files.                                                                  *)

NoRows == <<>>

PathNone == [given |-> FALSE, exists |-> FALSE, rows |-> NoRows]

MissingFile == [given |-> TRUE, exists |-> FALSE, rows |-> NoRows]

CsvFile(rows) == [given |-> TRUE, exists |-> TRUE, rows |-> rows]

Ok == "ok"

load_csv(filepath) ==
  IF filepath.given /\ filepath.exists
  THEN [error |-> Ok, rows |-> filepath.rows]
  ELSE [error |-> IF filepath.given THEN "FileNotFoundError" ELSE "TypeError",
        rows |-> NoRows]

\* the first column of `cols`, in order, that the row lacks; 0 when none
FirstMissing(row, cols) ==
  IF \E i \in 1..Len(cols) : cols[i] \notin DOMAIN row
  THEN CHOOSE i \in 1..Len(cols) :
         /\ cols[i] \notin DOMAIN row
         /\ \A j \in 1..(i - 1) : cols[j] \in DOMAIN row
  ELSE 0

\* a loop over rows stops at the first row that raises: its exception, or Ok
FirstError(errors) ==
  IF \E i \in 1..Len(errors) : errors[i] # Ok
  THEN errors[CHOOSE i \in 1..Len(errors) :
                /\ errors[i] # Ok
                /\ \A j \in 1..(i - 1) : errors[j] = Ok]
  ELSE Ok

-----------------------------------------------------------------------------
(* parse_bool.                                                             *)

UpperLetters == <<"A","B","C","D","E","F","G","H","I","J","K","L","M",
                  "N","O","P","Q","R","S","T","U","V","W","X","Y","Z">>

LowerLetters == <<"a","b","c","d","e","f","g","h","i","j","k","l","m",
                  "n","o","p","q","r","s","t","u","v","w","x","y","z">>

LowerChar(c) ==
  IF \E i \in 1..Len(UpperLetters) : UpperLetters[i] = c
  THEN LowerLetters[CHOOSE i \in 1..Len(UpperLetters) : UpperLetters[i] = c]
  ELSE c

\* parse_bool comparing the text as it stands
NotLowered(value) == value

lower(value) == [i \in 1..Len(value) |-> LowerChar(value[i])]

TruthyTokens == { <<"t","r","u","e">>, <<"y","e","s">>, <<"1">> }

parse_bool(value) == lower(value) \in TruthyTokens

\* a CSV cell read by parse_bool: its text, or None for a short row
Cell(chars) == [none |-> FALSE, chars |-> chars]

NoneCell == [none |-> TRUE, chars |-> <<>>]

-----------------------------------------------------------------------------
(* build_bridge_domains.                                                   *)

BdColumns == <<"name", "schema", "template", "vrf", "layer2_stretch", "unicast_routing">>

\* the exception the loop body raises on this row, or Ok
BdRowError(row) ==
  LET m == FirstMissing(row, BdColumns)
  IN  IF m \in 1..4 THEN "KeyError"
      ELSE IF m = 5 THEN "KeyError"
      ELSE IF row.layer2_stretch.none THEN "AttributeError"
      ELSE IF m = 6 THEN "KeyError"
      ELSE IF row.unicast_routing.none THEN "AttributeError"
      ELSE Ok

BdRecord(row) ==
  [name |-> row.name, schema |-> row.schema, template |-> row.template,
   vrf |-> row.vrf,
   layer2_stretch |-> parse_bool(row.layer2_stretch.chars),
   unicast_routing |-> parse_bool(row.unicast_routing.chars),
   sites |-> <<>>]

\* the loop of lines 50-60 over error-free rows
RECURSIVE BaseBds(_)
BaseBds(rows) ==
  IF rows = <<>> THEN <<>>
  ELSE DictPut(BaseBds(Front(rows)), Last(rows).name, BdRecord(Last(rows)))

BdRowErrors(rows) == [i \in 1..Len(rows) |-> BdRowError(rows[i])]

SubnetColumns == <<"bd_name", "site_name", "subnet_ip", "scope">>

SubnetRowError(row) == IF FirstMissing(row, SubnetColumns) # 0 THEN "KeyError" ELSE Ok

SubnetRowErrors(rows) == [i \in 1..Len(rows) |-> SubnetRowError(rows[i])]

\* grouping that assigns the site's list instead of appending to it
RECURSIVE GroupSubnetsOverwrite(_)
GroupSubnetsOverwrite(rows) ==
  IF rows = <<>> THEN <<>>
  ELSE LET g     == GroupSubnetsOverwrite(Front(rows))
           row   == Last(rows)
           sites == DictGetDefault(g, row.bd_name, <<>>)
       IN  DictPut(g, row.bd_name,
             DictPut(sites, row.site_name,
               <<[ip |-> row.subnet_ip, scope |-> row.scope]>>))

\* the loop of lines 68-74: subnets_by_bd_site
RECURSIVE GroupSubnets(_)
GroupSubnets(rows) ==
  IF rows = <<>> THEN <<>>
  ELSE LET g     == GroupSubnets(Front(rows))
           row   == Last(rows)
           sites == DictGetDefault(g, row.bd_name, <<>>)
           subs  == DictGetDefault(sites, row.site_name, <<>>)
       IN  DictPut(g, row.bd_name,
             DictPut(sites, row.site_name,
               Append(subs, [ip |-> row.subnet_ip, scope |-> row.scope])))

BdSite(entry) == [name |-> entry.key, subnets |-> entry.val, l3outs |-> "null"]

BdSites(sites) == [i \in 1..Len(sites) |-> BdSite(sites[i])]

BdHasParent(bds, bd_name) == DictHas(bds, bd_name)

\* the loop of lines 77-84 with bds.setdefault(bd_name, ...) for the test of line 78
RECURSIVE AttachSubnetsAddingParents(_, _)
AttachSubnetsAddingParents(bds, groups) ==
  IF groups = <<>> THEN bds
  ELSE LET bd_name == groups[1].key
           bd      == DictGetDefault(bds, bd_name,
                        [name |-> bd_name, schema |-> "", template |-> "", vrf |-> "",
                         layer2_stretch |-> FALSE, unicast_routing |-> FALSE,
                         sites |-> <<>>])
       IN  AttachSubnetsAddingParents(
             DictPut(bds, bd_name, [bd EXCEPT !.sites = bd.sites \o BdSites(groups[1].val)]),
             Tail(groups))

\* the loop of lines 77-84
RECURSIVE AttachSubnets(_, _)
AttachSubnets(bds, groups) ==
  IF groups = <<>> THEN bds
  ELSE LET bd_name == groups[1].key
           sites   == groups[1].val
       IN  IF BdHasParent(bds, bd_name)
           THEN LET bd == DictGet(bds, bd_name)
                IN  AttachSubnets(
                      DictPut(bds, bd_name,
                              [bd EXCEPT !.sites = bd.sites \o BdSites(sites)]),
                      Tail(groups))
           ELSE AttachSubnets(bds, Tail(groups))

\* the test of line 63 without Path(...).exists()
SecondaryReadUnchecked(csv) == csv.given

\* lines 63 and 122: the path is given and is on disk
SecondaryRead(csv) == csv.given /\ csv.exists

Raise(e) == [error |-> e, value |-> <<>>]

Return(v) == [error |-> Ok, value |-> v]

build_bridge_domains(bd_csv, subnet_csv) ==
  LET loaded == load_csv(bd_csv)
  IN  IF loaded.error # Ok THEN Raise(loaded.error)
      ELSE IF FirstError(BdRowErrors(loaded.rows)) # Ok
      THEN Raise(FirstError(BdRowErrors(loaded.rows)))
      ELSE LET bds == BaseBds(loaded.rows)
           IN  IF SecondaryRead(subnet_csv)
               THEN LET subnet_rows == load_csv(subnet_csv).rows
                    IN  IF load_csv(subnet_csv).error # Ok
                        THEN Raise(load_csv(subnet_csv).error)
                        ELSE IF FirstError(SubnetRowErrors(subnet_rows)) # Ok
                        THEN Raise(FirstError(SubnetRowErrors(subnet_rows)))
                        ELSE Return(DictValues(AttachSubnets(bds, GroupSubnets(subnet_rows))))
               ELSE Return(DictValues(bds))

-----------------------------------------------------------------------------
(* build_vrfs, build_anps.                                                 *)

FlatColumns == <<"name", "schema", "template">>

FlatRowError(row) == IF FirstMissing(row, FlatColumns) # 0 THEN "KeyError" ELSE Ok

FlatRowErrors(rows) == [i \in 1..Len(rows) |-> FlatRowError(rows[i])]

VrfRecord(row) == [name |-> row.name, schema |-> row.schema, template |-> row.template]

\* a builder that keys the records by name, as the bridge domains' does
RECURSIVE VrfRecordsByName(_)
VrfRecordsByName(rows) ==
  IF rows = <<>> THEN <<>>
  ELSE LET kept == VrfRecordsByName(Front(rows))
           dict == [i \in 1..Len(kept) |-> [key |-> kept[i].name, val |-> kept[i]]]
       IN  DictValues(DictPut(dict, Last(rows).name, VrfRecord(Last(rows))))

VrfRecords(rows) == [i \in 1..Len(rows) |-> VrfRecord(rows[i])]

AnpRecord(row) == [name |-> row.name, schema |-> row.schema, template |-> row.template]

AnpRecords(rows) == [i \in 1..Len(rows) |-> AnpRecord(rows[i])]

build_vrfs(csv_file) ==
  LET loaded == load_csv(csv_file)
  IN  IF loaded.error # Ok THEN Raise(loaded.error)
      ELSE IF FirstError(FlatRowErrors(loaded.rows)) # Ok
      THEN Raise(FirstError(FlatRowErrors(loaded.rows)))
      ELSE Return(VrfRecords(loaded.rows))

build_anps(csv_file) ==
  LET loaded == load_csv(csv_file)
  IN  IF loaded.error # Ok THEN Raise(loaded.error)
      ELSE IF FirstError(FlatRowErrors(loaded.rows)) # Ok
      THEN Raise(FirstError(FlatRowErrors(loaded.rows)))
      ELSE Return(AnpRecords(loaded.rows))

-----------------------------------------------------------------------------
(* build_epgs.                                                             *)

\* the columns read with row[...]; 'description' is read with row.get
EpgColumns == <<"name", "schema", "template", "ap", "bd", "vrf">>

EpgRowError(row) == IF FirstMissing(row, EpgColumns) # 0 THEN "KeyError" ELSE Ok

EpgRowErrors(rows) == [i \in 1..Len(rows) |-> EpgRowError(rows[i])]

EpgDescription(row) == IF "description" \in DOMAIN row THEN row.description ELSE ""

EpgRecord(row) ==
  [name |-> row.name, schema |-> row.schema, template |-> row.template,
   ap |-> row.ap, bd |-> row.bd, description |-> EpgDescription(row),
   vrf |-> row.vrf, sites |-> <<>>]

\* the loop of lines 108-119 over error-free rows
RECURSIVE BaseEpgs(_)
BaseEpgs(rows) ==
  IF rows = <<>> THEN <<>>
  ELSE DictPut(BaseEpgs(Front(rows)), Last(rows).name, EpgRecord(Last(rows)))

DomainColumns == <<"epg_name", "site_name", "domain_type", "domain_name">>

DomainRowError(row) == IF FirstMissing(row, DomainColumns) # 0 THEN "KeyError" ELSE Ok

DomainRowErrors(rows) == [i \in 1..Len(rows) |-> DomainRowError(rows[i])]

NoDomains == [phys |-> <<>>, vmm |-> <<>>]

\* lines 133-136 with else for elif: every other type is a vmm domain
DomainBucketElse(domain_type) == IF domain_type = "physical" THEN "phys" ELSE "vmm"

\* lines 133-136: the bucket a domain_type selects, "" for none
DomainBucket(domain_type) ==
  IF domain_type = "physical" THEN "phys"
  ELSE IF domain_type = "vmm" THEN "vmm"
  ELSE ""

\* the loop of lines 127-136 looking the site's entry up before the type
\* test: the defaultdict then holds an entry for every (epg, site) read
RECURSIVE GroupDomainsLookupFirst(_)
GroupDomainsLookupFirst(rows) ==
  IF rows = <<>> THEN <<>>
  ELSE LET g      == GroupDomainsLookupFirst(Front(rows))
           row    == Last(rows)
           bucket == DomainBucket(row.domain_type)
           sites  == DictGetDefault(g, row.epg_name, <<>>)
           doms   == DictGetDefault(sites, row.site_name, NoDomains)
       IN  DictPut(g, row.epg_name,
             DictPut(sites, row.site_name,
               IF bucket = "" THEN doms
               ELSE [doms EXCEPT ![bucket] = Append(@, row.domain_name)]))

\* the loop of lines 127-136: domains_by_epg_site
RECURSIVE GroupDomains(_)
GroupDomains(rows) ==
  IF rows = <<>> THEN <<>>
  ELSE LET g      == GroupDomains(Front(rows))
           row    == Last(rows)
           bucket == DomainBucket(row.domain_type)
           sites  == DictGetDefault(g, row.epg_name, <<>>)
           doms   == DictGetDefault(sites, row.site_name, NoDomains)
       IN  IF bucket = "" THEN g
           ELSE DictPut(g, row.epg_name,
                  DictPut(sites, row.site_name,
                    [doms EXCEPT ![bucket] = Append(@, row.domain_name)]))

EpgSite(entry) ==
  [name |-> entry.key,
   phys_domain_association |-> entry.val.phys,
   vmm_domain_association |-> entry.val.vmm]

EpgSites(sites) == [i \in 1..Len(sites) |-> EpgSite(sites[i])]

EpgHasParent(epgs_, epg_name) == DictHas(epgs_, epg_name)

\* the loop of lines 139-146
RECURSIVE AttachDomains(_, _)
AttachDomains(epgs_, groups) ==
  IF groups = <<>> THEN epgs_
  ELSE LET epg_name == groups[1].key
           sites    == groups[1].val
       IN  IF EpgHasParent(epgs_, epg_name)
           THEN LET epg == DictGet(epgs_, epg_name)
                IN  AttachDomains(
                      DictPut(epgs_, epg_name,
                              [epg EXCEPT !.sites = epg.sites \o EpgSites(sites)]),
                      Tail(groups))
           ELSE AttachDomains(epgs_, Tail(groups))

build_epgs(epg_csv, domain_csv) ==
  LET loaded == load_csv(epg_csv)
  IN  IF loaded.error # Ok THEN Raise(loaded.error)
      ELSE IF FirstError(EpgRowErrors(loaded.rows)) # Ok
      THEN Raise(FirstError(EpgRowErrors(loaded.rows)))
      ELSE LET base == BaseEpgs(loaded.rows)
           IN  IF SecondaryRead(domain_csv)
               THEN LET domain_rows == load_csv(domain_csv).rows
                    IN  IF load_csv(domain_csv).error # Ok
                        THEN Raise(load_csv(domain_csv).error)
                        ELSE IF FirstError(DomainRowErrors(domain_rows)) # Ok
                        THEN Raise(FirstError(DomainRowErrors(domain_rows)))
                        ELSE Return(DictValues(AttachDomains(base, GroupDomains(domain_rows))))
               ELSE Return(DictValues(base))

-----------------------------------------------------------------------------
(* main: one action per builder call, one for the write, one for the       *)
(* summary.  An exception leaves main at once: pc = "aborted".             *)

BuilderOrder == <<"build_vrfs", "build_bridge_domains", "build_anps", "build_epgs">>

\* where main continues after the builder at `stage` returns
AfterBuilder(stage) ==
  IF stage = "vrfs" THEN "bds"
  ELSE IF stage = "bds" THEN "anps"
  ELSE IF stage = "anps" THEN "epgs"
  ELSE "write"

\* main() catching the builder's exception and going on
ContinueDespiteError(stage, r) == AfterBuilder(stage)

Continue(stage, r) == IF r.error = Ok THEN AfterBuilder(stage) ELSE "aborted"

BuildVrfs ==
  /\ pc = "vrfs"
  /\ \E r \in {build_vrfs(vrfs_csv)} :
         /\ error' = r.error
         /\ vrfs' = r.value
         /\ pc' = Continue("vrfs", r)
  /\ calls' = Append(calls, "build_vrfs")
  /\ UNCHANGED <<inputs, output_file, bridge_domains, anps, epgs, stdout>>

BuildBridgeDomains ==
  /\ pc = "bds"
  /\ \E r \in {build_bridge_domains(bds_csv, subnets_csv)} :
         /\ error' = r.error
         /\ bridge_domains' = r.value
         /\ pc' = Continue("bds", r)
  /\ calls' = Append(calls, "build_bridge_domains")
  /\ UNCHANGED <<inputs, output_file, vrfs, anps, epgs, stdout>>

BuildAnps ==
  /\ pc = "anps"
  /\ \E r \in {build_anps(anps_csv)} :
         /\ error' = r.error
         /\ anps' = r.value
         /\ pc' = Continue("anps", r)
  /\ calls' = Append(calls, "build_anps")
  /\ UNCHANGED <<inputs, output_file, vrfs, bridge_domains, epgs, stdout>>

BuildEpgs ==
  /\ pc = "epgs"
  /\ \E r \in {build_epgs(epgs_csv, domains_csv)} :
         /\ error' = r.error
         /\ epgs' = r.value
         /\ pc' = Continue("epgs", r)
  /\ calls' = Append(calls, "build_epgs")
  /\ UNCHANGED <<inputs, output_file, vrfs, bridge_domains, anps, stdout>>

OutputHeader == "# Auto-generated from CSV files"

\* lines 181-183: the file is created or truncated, then written
WriteYaml ==
  /\ pc = "write"
  /\ output_file' = [exists |-> TRUE, header |-> OutputHeader,
                     doc |-> [vrfs |-> vrfs, bridge_domains |-> bridge_domains,
                              anps |-> anps, epgs |-> epgs]]
  /\ pc' = "print"
  /\ UNCHANGED <<inputs, calls, error, vrfs, bridge_domains, anps, epgs, stdout>>

StdoutEncodings == {"utf-8", "ascii", "latin-1"}

\* line 185 prints U+2713, which only a Unicode encoding of stdout can encode
EncodesCheckMark(encoding) == encoding = "utf-8"

\* line 185: the line that names the output file
GeneratedLine == [generated |-> "args.output"]

\* lines 186-189
CountLines ==
  <<[label |-> "VRFs", count |-> Len(vrfs)],
    [label |-> "Bridge Domains", count |-> Len(bridge_domains)],
    [label |-> "ANPs", count |-> Len(anps)],
    [label |-> "EPGs", count |-> Len(epgs)]>>

\* lines 185-189: five lines, or UnicodeEncodeError from the first print,
\* before anything is printed and after the output file was written
PrintSummary ==
  /\ pc = "print"
  /\ IF EncodesCheckMark(stdout_encoding)
     THEN /\ stdout' = <<GeneratedLine>> \o CountLines
          /\ pc' = "done"
          /\ error' = error
     ELSE /\ stdout' = stdout
          /\ pc' = "aborted"
          /\ error' = "UnicodeEncodeError"
  /\ UNCHANGED <<inputs, calls, vrfs, bridge_domains, anps, epgs, output_file>>

Next == BuildVrfs \/ BuildBridgeDomains \/ BuildAnps \/ BuildEpgs \/ WriteYaml \/ PrintSummary

-----------------------------------------------------------------------------
(* Inputs.  The i-th row of a secondary file carries the i-th payload, so  *)
(* that every row is told from the others and order is observable.         *)

BdNames == {"A", "B"}

SiteNames == {"site1", "site2"}

BdRow(name, variant) ==
  IF variant = 1
  THEN [name |-> name, schema |-> "schema1", template |-> "template1", vrf |-> "vrf1",
        layer2_stretch |-> Cell(<<"T","r","u","e">>),
        unicast_routing |-> Cell(<<"n","o">>)]
  ELSE [name |-> name, schema |-> "schema2", template |-> "template2", vrf |-> "vrf2",
        layer2_stretch |-> Cell(<<"f","a","l","s","e">>),
        unicast_routing |-> Cell(<<"Y","E","S">>)]

BdRowPool == {BdRow(n, v) : n \in BdNames, v \in {1, 2}}

BdNameFiles == {CsvFile(rows) : rows \in SeqsUpTo({BdRow(n, 1) : n \in BdNames}, MaxBdRows)}

BdFiles == {CsvFile(rows) : rows \in SeqsUpTo(BdRowPool, MaxPrimaryRows)}

SubnetIps == <<"10.0.0.0/24", "10.0.1.0/24", "10.1.0.0/24", "10.1.1.0/24", "10.2.0.0/24">>

SubnetScopes == <<"public", "private", "public", "private", "public">>

SubnetRows(keys) ==
  [i \in 1..Len(keys) |->
     [bd_name |-> keys[i].bd, site_name |-> keys[i].site,
      subnet_ip |-> SubnetIps[i], scope |-> SubnetScopes[i]]]

SubnetKeys == [bd : BdNames, site : SiteNames]

SubnetFiles == {CsvFile(SubnetRows(k)) : k \in SeqsUpTo(SubnetKeys, MaxSubnetRows)}

FewSubnetFiles == {CsvFile(SubnetRows(k)) : k \in SeqsUpTo(SubnetKeys, MaxFewRows)}

EpgNames == {"E1", "E2"}

EpgRow(name, variant) ==
  IF variant = 1
  THEN [name |-> name, schema |-> "schema1", template |-> "template1", ap |-> "ap1",
        bd |-> "A", description |-> "web tier", vrf |-> "vrf1"]
  ELSE [name |-> name, schema |-> "schema2", template |-> "template2", ap |-> "ap2",
        bd |-> "B", description |-> "", vrf |-> "vrf2"]

\* a row of a file whose header has no column `col`
Without(row, col) == [c \in DOMAIN row \ {col} |-> row[c]]

NoDescriptionRows(rows) == [i \in 1..Len(rows) |-> Without(rows[i], "description")]

EpgNameFiles == {CsvFile(rows) : rows \in SeqsUpTo({EpgRow(n, 1) : n \in EpgNames}, MaxEpgRows)}

EpgRowPool == {EpgRow(n, v) : n \in EpgNames, v \in {1, 2}}

EpgFiles ==
  {CsvFile(rows) : rows \in SeqsUpTo(EpgRowPool, MaxPrimaryRows)}
    \cup {CsvFile(NoDescriptionRows(rows)) : rows \in SeqsUpTo(EpgRowPool, MaxPrimaryRows)}

DomainTypes == {"physical", "vmm", "l3out"}

DomainNames == <<"dom1", "dom2", "dom3", "dom4", "dom5">>

DomainRows(keys) ==
  [i \in 1..Len(keys) |->
     [epg_name |-> keys[i].epg, site_name |-> keys[i].site,
      domain_type |-> keys[i].type, domain_name |-> DomainNames[i]]]

\* E1 is deployed on both sites, E2 on site1
DomainKeys ==
  {k \in [epg : EpgNames, site : SiteNames, type : DomainTypes] :
     k.epg = "E1" \/ k.site = "site1"}

DomainFiles == {CsvFile(DomainRows(k)) : k \in SeqsUpTo(DomainKeys, MaxDomainRows)}

FewDomainFiles == {CsvFile(DomainRows(k)) : k \in SeqsUpTo(DomainKeys, MaxFewRows)}

FlatRow(name, variant) ==
  IF variant = 1
  THEN [name |-> name, schema |-> "schema1", template |-> "template1"]
  ELSE [name |-> name, schema |-> "schema2", template |-> "template2"]

FlatFiles ==
  {CsvFile(rows) : rows \in SeqsUpTo({FlatRow(n, v) : n \in {"n1", "n2"}, v \in {1, 2}},
                                     MaxFlatRows)}

EmptyDoc == [vrfs |-> <<>>, bridge_domains |-> <<>>, anps |-> <<>>, epgs |-> <<>>]

NoOutput == [exists |-> FALSE, header |-> "", doc |-> EmptyDoc]

\* the output of an earlier run
StaleOutput ==
  [exists |-> TRUE, header |-> OutputHeader,
   doc |-> [EmptyDoc EXCEPT !.vrfs = <<FlatRow("old", 1)>>]]

\* main() at the call of the builder `start`, nothing built yet
InitRun(start) ==
  /\ pc = start
  /\ calls = <<>>
  /\ error = Ok
  /\ vrfs = <<>>
  /\ bridge_domains = <<>>
  /\ anps = <<>>
  /\ epgs = <<>>
  /\ stdout = <<>>

\* build_bridge_domains(bd_csv, subnet_csv) on well-formed files
InitBD ==
  /\ InitRun("bds")
  /\ output_file = NoOutput
  /\ stdout_encoding = "utf-8"
  /\ \/ /\ bds_csv \in BdNameFiles
        /\ subnets_csv \in {PathNone, MissingFile} \cup SubnetFiles
     \/ /\ bds_csv \in BdFiles
        /\ subnets_csv \in {PathNone, MissingFile} \cup FewSubnetFiles
  /\ vrfs_csv = MissingFile
  /\ anps_csv = MissingFile
  /\ epgs_csv = MissingFile
  /\ domains_csv = MissingFile

\* build_epgs(epg_csv, domain_csv) on well-formed files
InitEPG ==
  /\ InitRun("epgs")
  /\ output_file = NoOutput
  /\ stdout_encoding = "utf-8"
  /\ \/ /\ epgs_csv \in EpgNameFiles
        /\ domains_csv \in {PathNone, MissingFile} \cup DomainFiles
     \/ /\ epgs_csv \in EpgFiles
        /\ domains_csv \in {PathNone, MissingFile} \cup FewDomainFiles
  /\ vrfs_csv = MissingFile
  /\ bds_csv = MissingFile
  /\ subnets_csv = MissingFile
  /\ anps_csv = MissingFile

\* build_vrfs(csv_file), build_anps(csv_file) on well-formed files
InitFlat ==
  /\ output_file = NoOutput
  /\ stdout_encoding = "utf-8"
  /\ \/ InitRun("vrfs") /\ vrfs_csv \in FlatFiles /\ anps_csv = MissingFile
     \/ InitRun("anps") /\ anps_csv \in FlatFiles /\ vrfs_csv = MissingFile
  /\ bds_csv = MissingFile
  /\ subnets_csv = MissingFile
  /\ epgs_csv = MissingFile
  /\ domains_csv = MissingFile

UpperOf(c) ==
  IF \E i \in 1..Len(LowerLetters) : LowerLetters[i] = c
  THEN UpperLetters[CHOOSE i \in 1..Len(LowerLetters) : LowerLetters[i] = c]
  ELSE c

\* the word in every mix of upper and lower case
RECURSIVE CaseVariants(_)
CaseVariants(word) ==
  IF word = <<>> THEN {<<>>}
  ELSE {<<c>> \o rest : c \in {word[1], UpperOf(word[1])}, rest \in CaseVariants(Tail(word))}

\* the truthy and the falsy words, and words a letter or a space away from them
BoolWords ==
  { <<"t","r","u","e">>, <<"y","e","s">>, <<"1">>,
    <<"f","a","l","s","e">>, <<"n","o">>, <<"0">>, <<>>,
    <<"g","a","r","b","a","g","e">>,
    <<"t","r","u">>, <<"t","r","u","e","e">>, <<"y","e","s","s">>, <<"y">>, <<"t">>,
    <<"o","n">>, <<"1","1">>, <<"1",".","0">>,
    <<" ","t","r","u","e">>, <<"t","r","u","e"," ">>, <<"y","e","s","\n">> }

BoolCells == {NoneCell} \cup {Cell(t) : t \in UNION {CaseVariants(w) : w \in BoolWords}}

FewBoolCells ==
  {NoneCell} \cup
  {Cell(t) : t \in { <<"t","r","u","e">>, <<"T","r","u","e">>, <<"Y","E","S">>, <<"1">>,
                      <<"f","a","l","s","e">>, <<"n","o">>, <<"0">>, <<>>,
                      <<"g","a","r","b","a","g","e">> }}

\* build_bridge_domains on one row whose two boolean cells vary
InitBool ==
  /\ InitRun("bds")
  /\ output_file = NoOutput
  /\ stdout_encoding = "utf-8"
  /\ \E l2 \in BoolCells, ur \in FewBoolCells :
       bds_csv = CsvFile(<<[BdRow("A", 1) EXCEPT !.layer2_stretch = l2,
                                                 !.unicast_routing = ur]>>)
  /\ subnets_csv = PathNone
  /\ vrfs_csv = MissingFile
  /\ anps_csv = MissingFile
  /\ epgs_csv = MissingFile
  /\ domains_csv = MissingFile

SpecBool == InitBool /\ [][BuildBridgeDomains]_vars

MainVrfFiles ==
  {MissingFile, CsvFile(<<>>), CsvFile(<<FlatRow("vrf1", 1), FlatRow("vrf1", 2)>>),
   CsvFile(<<Without(FlatRow("vrf1", 1), "template")>>)}

MainBdFiles ==
  {MissingFile, CsvFile(<<BdRow("A", 1)>>),
   CsvFile(<<Without(BdRow("A", 1), "vrf")>>),
   CsvFile(<<BdRow("A", 1), [BdRow("B", 2) EXCEPT !.layer2_stretch = NoneCell]>>)}

MainSubnetFiles ==
  {MissingFile, CsvFile(SubnetRows(<<[bd |-> "A", site |-> "site1"]>>)),
   CsvFile(<<Without(SubnetRows(<<[bd |-> "B", site |-> "site1"]>>)[1], "scope")>>)}

MainAnpFiles ==
  {MissingFile, CsvFile(<<FlatRow("ap1", 1)>>), CsvFile(<<Without(FlatRow("ap1", 1), "name")>>)}

MainEpgFiles ==
  {MissingFile, CsvFile(<<EpgRow("E1", 1)>>), CsvFile(<<Without(EpgRow("E1", 1), "description")>>),
   CsvFile(<<Without(EpgRow("E1", 1), "bd"), Without(EpgRow("E2", 1), "bd")>>)}

MainDomainFiles ==
  {MissingFile,
   CsvFile(DomainRows(<<[epg |-> "E1", site |-> "site1", type |-> "physical"]>>)),
   CsvFile(<<Without(DomainRows(<<[epg |-> "E9", site |-> "site1", type |-> "vmm"]>>)[1],
                     "domain_type")>>)}

\* main(): every path argument is given (argparse defaults), no builder has run
Init ==
  /\ InitRun("vrfs")
  /\ output_file \in {NoOutput, StaleOutput}
  /\ stdout_encoding \in StdoutEncodings
  /\ vrfs_csv \in MainVrfFiles
  /\ bds_csv \in MainBdFiles
  /\ subnets_csv \in MainSubnetFiles
  /\ anps_csv \in MainAnpFiles
  /\ epgs_csv \in MainEpgFiles
  /\ domains_csv \in MainDomainFiles

Spec == Init /\ [][Next]_vars

NextBD == BuildBridgeDomains

SpecBD == InitBD /\ [][NextBD]_vars

NextEPG == BuildEpgs

SpecEPG == InitEPG /\ [][NextEPG]_vars

InitJoin == InitBD \/ InitEPG

NextJoin == BuildBridgeDomains \/ BuildEpgs

SpecJoin == InitJoin /\ [][NextJoin]_vars

NextFlat == BuildVrfs \/ BuildAnps

SpecFlat == InitFlat /\ [][NextFlat]_vars

-----------------------------------------------------------------------------
(* Properties.  They are stated on the input files and the builders'       *)
(* results, with filters and first-occurrence orders of their own.         *)

Indices(s) == 1..Len(s)

Range(s) == {s[i] : i \in Indices(s)}

NoDuplicates(s) == \A i, j \in Indices(s) : s[i] = s[j] => i = j

\* the least index of the set; 0 for the empty set
Least(indices) ==
  IF indices = {} THEN 0 ELSE CHOOSE i \in indices : \A j \in indices : i <= j

NamesOf(entities) == [i \in Indices(entities) |-> entities[i].name]

BdReturned == pc = "anps" /\ error = Ok

SubnetsOf(bd_name, site_name) ==
  LET picked == SelectSeq(subnets_csv.rows,
                          LAMBDA r : r.bd_name = bd_name /\ r.site_name = site_name)
  IN  [i \in Indices(picked) |-> [ip |-> picked[i].subnet_ip, scope |-> picked[i].scope]]

FirstSubnetRow(bd_name, site_name) ==
  Least({i \in Indices(subnets_csv.rows) :
           /\ subnets_csv.rows[i].bd_name = bd_name
           /\ subnets_csv.rows[i].site_name = site_name})

\* C1: with an existing subnet CSV, every bridge domain of the primary CSV is
\* returned with one Site per distinct site_name of its subnet rows, in order
\* of first occurrence; each Site holds that (bd, site)'s {ip, scope} pairs in
\* file order and l3outs null; a bridge domain without subnet rows has no site.
C1_SitesGroupedInFileOrder ==
  (BdReturned /\ SecondaryRead(subnets_csv)) =>
    /\ \A r \in Range(bds_csv.rows) : r.name \in Range(NamesOf(bridge_domains))
    /\ \A b \in Indices(bridge_domains) :
         LET bd    == bridge_domains[b]
             sites == NamesOf(bd.sites)
         IN  /\ NoDuplicates(sites)
             /\ Range(sites) = {r.site_name : r \in {x \in Range(subnets_csv.rows) :
                                                       x.bd_name = bd.name}}
             /\ \A i, j \in Indices(sites) :
                  i < j => FirstSubnetRow(bd.name, sites[i]) < FirstSubnetRow(bd.name, sites[j])
             /\ \A i \in Indices(sites) :
                  /\ bd.sites[i].subnets = SubnetsOf(bd.name, sites[i])
                  /\ bd.sites[i].l3outs = "null"
             /\ (\A r \in Range(subnets_csv.rows) : r.bd_name # bd.name) => bd.sites = <<>>

\* a bridge domain with two sites, the first holding two subnets whose rows
\* the second site's row separates, beside a bridge domain without sites
C1_Witness ==
  /\ BdReturned
  /\ SecondaryRead(subnets_csv)
  /\ Len(subnets_csv.rows) = 3
  /\ \E b, c \in Indices(bridge_domains) :
       /\ Len(bridge_domains[b].sites) = 2
       /\ Len(bridge_domains[b].sites[1].subnets) = 2
       /\ bridge_domains[b].sites[2].name = subnets_csv.rows[2].site_name
       /\ bridge_domains[c].sites = <<>>

EpgReturned == pc = "write" /\ error = Ok

\* the last row of `rows` named `name`
LastRowNamed(rows, name) ==
  rows[CHOOSE i \in Indices(rows) :
         rows[i].name = name /\ \A j \in (i + 1)..Len(rows) : rows[j].name # name]

\* one entity per name of the primary rows, in order of the names' first rows
OnePerNameInFirstRowOrder(entities, rows) ==
  LET names == NamesOf(entities)
  IN  /\ NoDuplicates(names)
      /\ Range(names) = {r.name : r \in Range(rows)}
      /\ \A i, j \in Indices(names) :
           i < j => Least({k \in Indices(rows) : rows[k].name = names[i]})
                      < Least({k \in Indices(rows) : rows[k].name = names[j]})

\* the text is 'true', 'yes' or '1' in some letter case
TruthyWords == { <<"t","r","u","e">>, <<"y","e","s">>, <<"1">> }

SameLetter(c, low) ==
  c = low \/ \E k \in Indices(LowerLetters) : LowerLetters[k] = low /\ UpperLetters[k] = c

IsTruthyText(chars) ==
  \E w \in TruthyWords :
     Len(chars) = Len(w) /\ \A i \in Indices(w) : SameLetter(chars[i], w[i])

\* C2: when several primary rows have the same name, the builders return one
\* entity of that name, placed where the first such row stands among the
\* names and holding the scalar fields of the last such row.
C2_LastRowWinsFirstRowPlaces ==
  /\ BdReturned =>
       /\ OnePerNameInFirstRowOrder(bridge_domains, bds_csv.rows)
       /\ \A b \in Indices(bridge_domains) :
            LET bd  == bridge_domains[b]
                row == LastRowNamed(bds_csv.rows, bd.name)
            IN  /\ bd.schema = row.schema
                /\ bd.template = row.template
                /\ bd.vrf = row.vrf
                /\ bd.layer2_stretch = IsTruthyText(row.layer2_stretch.chars)
                /\ bd.unicast_routing = IsTruthyText(row.unicast_routing.chars)
  /\ EpgReturned =>
       /\ OnePerNameInFirstRowOrder(epgs, epgs_csv.rows)
       /\ \A e \in Indices(epgs) :
            LET epg == epgs[e]
                row == LastRowNamed(epgs_csv.rows, epg.name)
            IN  /\ epg.schema = row.schema
                /\ epg.template = row.template
                /\ epg.ap = row.ap
                /\ epg.bd = row.bd
                /\ epg.vrf = row.vrf
                /\ epg.description =
                     (IF "description" \in DOMAIN row THEN row.description ELSE "")

\* rows named X, Y, X with different fields in the two X rows: X comes first
\* in the result, with the third row's fields
C2_Witness ==
  /\ BdReturned
  /\ Len(bds_csv.rows) = 3
  /\ bds_csv.rows[1].name = bds_csv.rows[3].name
  /\ bds_csv.rows[1].name # bds_csv.rows[2].name
  /\ bds_csv.rows[1].schema # bds_csv.rows[3].schema
  /\ Len(bridge_domains) = 2
  /\ bridge_domains[1].name = bds_csv.rows[3].name
  /\ bridge_domains[1].schema = bds_csv.rows[3].schema

DomainsOf(epg_name, site_name, domain_type) ==
  LET picked == SelectSeq(domains_csv.rows,
                          LAMBDA r : /\ r.epg_name = epg_name
                                     /\ r.site_name = site_name
                                     /\ r.domain_type = domain_type)
  IN  [i \in Indices(picked) |-> picked[i].domain_name]

\* C3: every site entry of every EPG holds, as phys_domain_association, the
\* domain names of that (epg, site)'s rows of type 'physical' in file order,
\* and as vmm_domain_association those of type 'vmm'; a row of any other type
\* raises nothing and its domain name is in no list.
C3_DomainsBucketedByType ==
  (calls = <<"build_epgs">> /\ SecondaryRead(domains_csv)) =>
    /\ error = Ok
    /\ \A e \in Indices(epgs) : \A i \in Indices(epgs[e].sites) :
         LET site == epgs[e].sites[i]
         IN  /\ site.phys_domain_association = DomainsOf(epgs[e].name, site.name, "physical")
             /\ site.vmm_domain_association = DomainsOf(epgs[e].name, site.name, "vmm")
             /\ \A r \in Range(domains_csv.rows) :
                  r.domain_type \notin {"physical", "vmm"} =>
                    /\ r.domain_name \notin Range(site.phys_domain_association)
                    /\ r.domain_name \notin Range(site.vmm_domain_association)

\* one site with a physical and a vmm domain and, between their rows, a row
\* of another type for the same EPG and site
C3_Witness ==
  /\ EpgReturned
  /\ Len(domains_csv.rows) = 3
  /\ domains_csv.rows[2].domain_type = "l3out"
  /\ \A i \in {2, 3} : /\ domains_csv.rows[i].epg_name = domains_csv.rows[1].epg_name
                        /\ domains_csv.rows[i].site_name = domains_csv.rows[1].site_name
  /\ \E e \in Indices(epgs) :
       /\ Len(epgs[e].sites) = 1
       /\ Len(epgs[e].sites[1].phys_domain_association) = 1
       /\ Len(epgs[e].sites[1].vmm_domain_association) = 1

InPrimary(rows, name) == \E r \in Range(rows) : r.name = name

WithoutOrphanSubnets(csv, parents) ==
  [csv EXCEPT !.rows = SelectSeq(@, LAMBDA r : InPrimary(parents, r.bd_name))]

WithoutOrphanDomains(csv, parents) ==
  [csv EXCEPT !.rows = SelectSeq(@, LAMBDA r : InPrimary(parents, r.epg_name))]

\* C4: a secondary row whose parent name is not in the primary CSV raises
\* nothing, adds no entity, and leaves the result what it is for the file
\* without that row.
C4_OrphanRowsDropped ==
  /\ (calls = <<"build_bridge_domains">> /\ SecondaryRead(subnets_csv)) =>
       /\ error = Ok
       /\ \A b \in Indices(bridge_domains) : InPrimary(bds_csv.rows, bridge_domains[b].name)
       /\ bridge_domains =
            build_bridge_domains(bds_csv,
              WithoutOrphanSubnets(subnets_csv, bds_csv.rows)).value
  /\ (calls = <<"build_epgs">> /\ SecondaryRead(domains_csv)) =>
       /\ error = Ok
       /\ \A e \in Indices(epgs) : InPrimary(epgs_csv.rows, epgs[e].name)
       /\ epgs =
            build_epgs(epgs_csv,
              WithoutOrphanDomains(domains_csv, epgs_csv.rows)).value

\* a subnet row of an unknown bridge domain between two rows of a known one
C4_Witness ==
  /\ BdReturned
  /\ Len(subnets_csv.rows) = 3
  /\ ~InPrimary(bds_csv.rows, subnets_csv.rows[2].bd_name)
  /\ InPrimary(bds_csv.rows, subnets_csv.rows[1].bd_name)
  /\ InPrimary(bds_csv.rows, subnets_csv.rows[3].bd_name)
  /\ Len(bridge_domains) = 1
  /\ Len(bridge_domains[1].sites) = 2

NoSites(entities) == \A i \in Indices(entities) : entities[i].sites = <<>>

WithoutSites(entities) == [i \in Indices(entities) |-> [entities[i] EXCEPT !.sites = <<>>]]

\* C5: with the secondary path omitted or naming no file, the builder raises
\* nothing and every entity has an empty sites list; the entities and their
\* scalar fields are those built with a secondary file present.
C5_AbsentSecondaryGivesNoSites ==
  /\ (calls = <<"build_bridge_domains">> /\ ~SecondaryRead(subnets_csv)) =>
       error = Ok /\ NoSites(bridge_domains)
  /\ (calls = <<"build_bridge_domains">> /\ SecondaryRead(subnets_csv)) =>
       \A absent \in {PathNone, MissingFile} :
          /\ build_bridge_domains(bds_csv, absent).error = error
          /\ build_bridge_domains(bds_csv, absent).value = WithoutSites(bridge_domains)
  /\ (calls = <<"build_epgs">> /\ ~SecondaryRead(domains_csv)) =>
       error = Ok /\ NoSites(epgs)
  /\ (calls = <<"build_epgs">> /\ SecondaryRead(domains_csv)) =>
       \A absent \in {PathNone, MissingFile} :
          /\ build_epgs(epgs_csv, absent).error = error
          /\ build_epgs(epgs_csv, absent).value = WithoutSites(epgs)

\* the domain CSV's path names no file and two EPGs are returned
C5_Witness ==
  /\ EpgReturned
  /\ domains_csv = MissingFile
  /\ Len(epgs) = 2
  /\ NoSites(epgs)

\* C6: no bridge domain and no EPG returned has two sites of the same name.
C6_SiteNamesUnique ==
  /\ \A b \in Indices(bridge_domains) : NoDuplicates(NamesOf(bridge_domains[b].sites))
  /\ \A e \in Indices(epgs) : NoDuplicates(NamesOf(epgs[e].sites))

\* the primary CSV names the EPG twice, and the domain CSV names one of its
\* sites in the first and third rows and another in the second
C6_Witness ==
  /\ EpgReturned
  /\ Len(epgs_csv.rows) = 2
  /\ epgs_csv.rows[1].name = epgs_csv.rows[2].name
  /\ Len(domains_csv.rows) = 3
  /\ \A i \in 1..3 : domains_csv.rows[i].epg_name = epgs_csv.rows[1].name
  /\ domains_csv.rows[1].site_name = domains_csv.rows[3].site_name
  /\ domains_csv.rows[1].site_name # domains_csv.rows[2].site_name
  /\ Len(epgs) = 1
  /\ Len(epgs[1].sites) = 2

SameFlatFields(record, row) ==
  /\ record.name = row.name
  /\ record.schema = row.schema
  /\ record.template = row.template

\* C7: build_vrfs and build_anps return one record per data row, the i-th
\* with the i-th row's name, schema and template; repeated names are kept.
C7_FlatRowsCopiedInOrder ==
  /\ (calls = <<"build_vrfs">> /\ error = Ok) =>
       /\ Len(vrfs) = Len(vrfs_csv.rows)
       /\ \A i \in Indices(vrfs) : SameFlatFields(vrfs[i], vrfs_csv.rows[i])
  /\ (calls = <<"build_anps">> /\ error = Ok) =>
       /\ Len(anps) = Len(anps_csv.rows)
       /\ \A i \in Indices(anps) : SameFlatFields(anps[i], anps_csv.rows[i])

\* three VRF rows, the first and third of the same name and different fields
C7_Witness ==
  /\ calls = <<"build_vrfs">>
  /\ error = Ok
  /\ Len(vrfs_csv.rows) = 3
  /\ vrfs_csv.rows[1].name = vrfs_csv.rows[3].name
  /\ vrfs_csv.rows[1].schema # vrfs_csv.rows[3].schema
  /\ Len(vrfs) = 3

Recognised(r) == r.domain_type \in {"physical", "vmm"}

\* C10: an EPG has a site entry for S exactly when the domain CSV has a row
\* of type 'physical' or 'vmm' for that (epg, S); the entries stand in the
\* order of each site's first such row.
C10_SitesFromRecognisedRowsOnly ==
  (EpgReturned /\ SecondaryRead(domains_csv)) =>
    \A e \in Indices(epgs) :
       LET sites == NamesOf(epgs[e].sites)
           First(s) == Least({k \in Indices(domains_csv.rows) :
                                /\ domains_csv.rows[k].epg_name = epgs[e].name
                                /\ domains_csv.rows[k].site_name = s
                                /\ Recognised(domains_csv.rows[k])})
       IN  /\ \A s \in SiteNames : (s \in Range(sites)) <=> (First(s) # 0)
           /\ Range(sites) \subseteq SiteNames
           /\ \A i, j \in Indices(sites) : i < j => First(sites[i]) < First(sites[j])

\* the EPG's first row names a site with another type only, and that site
\* gets its entry from the third row, after the second row's site
C10_Witness ==
  /\ EpgReturned
  /\ Len(domains_csv.rows) = 3
  /\ ~Recognised(domains_csv.rows[1])
  /\ Recognised(domains_csv.rows[2])
  /\ Recognised(domains_csv.rows[3])
  /\ \A i \in 1..3 : InPrimary(epgs_csv.rows, domains_csv.rows[i].epg_name)
  /\ \A i \in {2, 3} : domains_csv.rows[i].epg_name = domains_csv.rows[1].epg_name
  /\ domains_csv.rows[3].site_name = domains_csv.rows[1].site_name
  /\ domains_csv.rows[2].site_name # domains_csv.rows[1].site_name
  /\ \E e \in Indices(epgs) :
       NamesOf(epgs[e].sites) = <<domains_csv.rows[2].site_name, domains_csv.rows[1].site_name>>

\* C8: parse_bool is true exactly for 'true', 'yes' and '1' in any letter
\* case and raises nothing on a string, so a bridge domain's layer2_stretch
\* and unicast_routing are true exactly when the cell is one of these.
C8_ParseBoolTruthyTokens ==
  (calls = <<"build_bridge_domains">> /\ Len(bds_csv.rows) = 1) =>
    LET row == bds_csv.rows[1]
    IN  (~row.layer2_stretch.none /\ ~row.unicast_routing.none) =>
          /\ error = Ok
          /\ Len(bridge_domains) = 1
          /\ bridge_domains[1].layer2_stretch = IsTruthyText(row.layer2_stretch.chars)
          /\ bridge_domains[1].unicast_routing = IsTruthyText(row.unicast_routing.chars)
          /\ parse_bool(row.layer2_stretch.chars) = IsTruthyText(row.layer2_stretch.chars)

\* 'tRuE' parsed to true beside 'garbage' parsed to false
C8_Witness ==
  /\ BdReturned
  /\ Len(bds_csv.rows) = 1
  /\ bds_csv.rows[1].layer2_stretch = Cell(<<"t","R","u","E">>)
  /\ bds_csv.rows[1].unicast_routing = Cell(<<"g","a","r","b","a","g","e">>)
  /\ bridge_domains[1].layer2_stretch
  /\ ~bridge_domains[1].unicast_routing

IsPrefix(s, t) == Len(s) <= Len(t) /\ \A i \in Indices(s) : s[i] = t[i]

LacksColumn(csv, cols) == \E r \in Range(csv.rows) : \E c \in Range(cols) : c \notin DOMAIN r

\* a primary file that is missing or has a row without a required column
BadPrimary(csv, cols) == ~csv.exists \/ LacksColumn(csv, cols)

\* an existing secondary file that has a row without a required column
BadSecondary(csv, cols) == csv.exists /\ LacksColumn(csv, cols)

OutputUntouched == output_file \in {NoOutput, StaleOutput}

\* the results of the builders main() has not called are not there
LaterResultsUnset ==
  /\ Len(calls) < 2 => bridge_domains = <<>>
  /\ Len(calls) < 3 => anps = <<>>
  /\ Len(calls) < 4 => epgs = <<>>

\* the exception is a builder's: the only other one is the first print's
BuilderFailed == error # Ok /\ error # "UnicodeEncodeError"

\* C9: main runs the builders in the order VRFs, bridge domains, ANPs, EPGs
\* and writes the output file only after the four returned; any failure ends
\* the run at once, and a builder that fails (a missing primary CSV, a row
\* without a required column in a primary or an existing secondary CSV) ends
\* it in error: no later builder runs, the output file is left as it was
\* and no summary is printed.
C9_AnyFailureAbortsBeforeOutput ==
  /\ IsPrefix(calls, BuilderOrder)
  /\ ~OutputUntouched => calls = BuilderOrder /\ ~BuilderFailed
  /\ stdout # <<>> => ~OutputUntouched /\ pc = "done" /\ error = Ok
  /\ (Len(calls) >= 1 /\ BadPrimary(vrfs_csv, FlatColumns)) => BuilderFailed
  /\ (Len(calls) >= 2 /\ (BadPrimary(bds_csv, BdColumns)
                              \/ BadSecondary(subnets_csv, SubnetColumns))) => BuilderFailed
  /\ (Len(calls) >= 3 /\ BadPrimary(anps_csv, FlatColumns)) => BuilderFailed
  /\ (Len(calls) >= 4 /\ (BadPrimary(epgs_csv, EpgColumns)
                              \/ BadSecondary(domains_csv, DomainColumns))) => BuilderFailed
  /\ error # Ok => pc = "aborted" /\ ~ENABLED Next
  /\ BuilderFailed =>
       /\ LaterResultsUnset
       /\ OutputUntouched
       /\ stdout = <<>>

\* the bridge-domain builder failed on a subnet row without a column, after
\* the VRFs were built: the earlier output is still there, nothing printed
C9_Witness ==
  /\ pc = "aborted"
  /\ calls = <<"build_vrfs", "build_bridge_domains">>
  /\ Len(vrfs) = 2
  /\ ~BadPrimary(bds_csv, BdColumns)
  /\ BadSecondary(subnets_csv, SubnetColumns)
  /\ error = "KeyError"
  /\ output_file = StaleOutput
  /\ stdout = <<>>

\* every row of a file has the fields of the file's header
SameHeaderInEveryRow ==
  \A f \in {vrfs_csv, bds_csv, subnets_csv, anps_csv, epgs_csv, domains_csv} :
     \A i, j \in Indices(f.rows) : DOMAIN f.rows[i] = DOMAIN f.rows[j]

====
